---- MODULE Spec2Model ----
(***************************************************************************)
(* Sleep-phase pipeline of the smart sleep tracker: the windowing loops of *)
(* the training scripts and classifiers, the SleepLSTMModel object         *)
(* (lstm_model.py) and the real-time endpoint of the service (main.py).    *)
(*                                                                         *)
(* Numbers.  Accelerations and magnitudes are integers in hundredths       *)
(* (0.08 is 8, 9.0 is 900); a mean is the exact rational Sum/Len and is    *)
(* compared by cross-multiplication.  Probabilities are integers in        *)
(* hundredths as well (0.25 is 25, 0.7 is 70).                             *)
(* Indices.  The loops keep Python's 0-based indices; At and Slice convert *)
(* to TLA+ sequences.                                                      *)
(***************************************************************************)
EXTENDS Integers, Sequences, FiniteSets

VARIABLES
    wData,          \* windowing: the per-sample input, records [mov, label]
    wSize,          \* windowing: window size the routine ran with
    wStep,          \* windowing: step the routine ran with
    wRoutine,       \* windowing: which routine produced wOut ("none" before)
    wOut,           \* windowing: the windows the routine produced
    obj,            \* a SleepLSTMModel instance
    call,           \* last method call on obj: [method, data, outcome]
    completed,      \* history: some train or load_model of obj has returned
    disk,           \* the files models/lstm_sleep_model.h5, _scaler.pkl
                    \* and models/model_metadata.json
    started,        \* service: module import of main.py has run
    LSTM_AVAILABLE, \* service: main.py global
    lstm_model,     \* service: main.py global, a SleepLSTMModel or None
    request,        \* service: sensor_data of the last /realtime/predict
    response,       \* service: its response
    mPhases,        \* metrics: the phase list handed to a metrics function
    mDuration,      \* metrics: the duration handed to it, hundredths of hours
    mCall,          \* metrics: the function that ran: [fn, score, out]
    sessions_db,    \* service: main.py global, session id -> session or None
    analysis_db,    \* service: main.py global, session id -> analysis or None
    http,           \* service: last session request and its response
    race,           \* two threads on one SleepLSTMModel: positions and reads
    run             \* a training run: its data, scaler, split and epochs

wvars == <<wData, wSize, wStep, wRoutine, wOut>>
ovars == <<obj, call, completed>>
svars == <<started, LSTM_AVAILABLE, lstm_model, request, response>>
vars == <<wData, wSize, wStep, wRoutine, wOut, obj, call, completed, disk,
          started, LSTM_AVAILABLE, lstm_model, request, response,
          mPhases, mDuration, mCall, sessions_db, analysis_db, http, race, run>>

(***************************************************************************)
(* Bounds of the model.                                                    *)
(***************************************************************************)
MaxLen == 5         \* longest per-sample input of the windowing routines
MaxWin == 5         \* largest window size tried
MaxStep == 3        \* largest step tried
MaxOlder == 2       \* most samples a request carries beyond the last 60
MaxShort == 2       \* most samples a request falls short of 60 by
MaxSeqLen == 2      \* largest sequence_length a SleepLSTMModel is built with
MaxObjLen == 2      \* longest array handed to a SleepLSTMModel method
MaxBatches == 2     \* most batches of samples one session is sent
BatchLen == 20      \* samples in one batch
MaxWindows == 10    \* most windows in a phase list handed to a metrics function
MaxAnyOrder == 3    \* longest phase list tried in every order

None == [none |-> TRUE]
\* the session ids a request can name: the service issues the first one only
SessionIds == {<<"u1", 0>>, <<"u2", 0>>}
NoLabel == "NoLabel"

(***************************************************************************)
(* Python and numpy helpers.                                               *)
(***************************************************************************)
Min2(a, b) == IF a < b THEN a ELSE b
Max2(a, b) == IF a > b THEN a ELSE b

\* seq[i] with a 0-based index
At(seq, i) == seq[i + 1]

\* seq[i:j] for 0 <= i, clipped at the end of seq as Python slices are
Slice(seq, i, j) == SubSeq(seq, i + 1, Min2(j, Len(seq)))

\* seq[-n:] for n >= 1: the last n elements (all of them if there are fewer)
LastN(seq, n) == SubSeq(seq, Max2(1, Len(seq) - n + 1), Len(seq))

\* list(range(start, stop, step)) for step >= 1
PyRange(start, stop, step) ==
    IF stop <= start THEN << >>
    ELSE [k \in 1..((stop - start + step - 1) \div step) |-> start + (k - 1) * step]

\* the 0-based row indices 0 .. n-1 of an array of n rows
Indices(n) == [k \in 1..n |-> k - 1]

RECURSIVE SumSeq(_)
SumSeq(s) == IF s = << >> THEN 0 ELSE Head(s) + SumSeq(Tail(s))

SeqMax(s) == CHOOSE m \in {s[k] : k \in 1..Len(s)} : \A k \in 1..Len(s) : s[k] <= m
SeqMin(s) == CHOOSE m \in {s[k] : k \in 1..Len(s)} : \A k \in 1..Len(s) : s[k] >= m

CountOf(c, s) == Cardinality({k \in 1..Len(s) : s[k] = c})

\* np.bincount(x): counts of 0 .. max(x), as a sequence whose entry c+1 counts c
np_bincount(x) == [k \in 1..(SeqMax(x) + 1) |-> CountOf(k - 1, x)]

\* np.argmax(a): the 0-based index of the first occurrence of the maximum
np_argmax(a) ==
    (CHOOSE k \in 1..Len(a) :
        /\ \A j \in 1..Len(a) : a[j] <= a[k]
        /\ \A j \in 1..(k - 1) : a[j] < a[k]) - 1

\* a variant that keeps the last occurrence of the maximum
most_common_last(window_labels) ==
    LET a == np_bincount(window_labels)
    IN (CHOOSE k \in 1..Len(a) :
            /\ \A j \in 1..Len(a) : a[j] <= a[k]
            /\ \A j \in (k + 1)..Len(a) : a[j] < a[k]) - 1

\* np.bincount(window_labels).argmax()
most_common(window_labels) == np_argmax(np_bincount(window_labels))

Labels(data) == [k \in 1..Len(data) |-> data[k].label]
Movs(data) == [k \in 1..Len(data) |-> data[k].mov]


(***************************************************************************)
(* The windowing loops.  A window is [start, idx, label]: idx holds the    *)
(* 0-based indices of the samples the slice took.                          *)
(***************************************************************************)
Window(n, i, size, lab) ==
    [start |-> i, idx |-> Slice(Indices(n), i, i + size), label |-> lab]

\* SleepLSTMModel.create_sequences(data, labels)
create_sequences(labels, sequence_length) ==
    LET r == PyRange(0, Len(labels) - sequence_length, 1)
    IN [k \in 1..Len(r) |->
           Window(Len(labels), r[k], sequence_length,
                  At(labels, r[k] + sequence_length))]

\* SleepLSTMModel.create_sequences(data) without labels
create_sequences_unlabelled(n, sequence_length) ==
    LET r == PyRange(0, n - sequence_length, 1)
    IN [k \in 1..Len(r) |-> Window(n, r[k], sequence_length, NoLabel)]

\* train_final.py, the loop over one session
train_final_windows(labels, window_size, step_size) ==
    LET r == PyRange(0, Len(labels) - window_size, step_size)
    IN [k \in 1..Len(r) |->
           Window(Len(labels), r[k], window_size,
                  most_common(Slice(labels, r[k], r[k] + window_size)))]

\* SleepLSTMTrainer.load_and_preprocess_data, the loop over one session
load_and_preprocess_windows(labels, window_size) ==
    LET r == PyRange(0, Len(labels) - window_size, 1)
    IN [k \in 1..Len(r) |->
           Window(Len(labels), r[k], window_size,
                  most_common(Slice(labels, r[k], r[k] + window_size)))]

\* LSTMSleepClassifier.prepare_sequences(X, y)
prepare_sequences(y, sequence_length) ==
    LET r == PyRange(0, Len(y) - sequence_length, 1)
    IN [k \in 1..Len(r) |->
           Window(Len(y), r[k], sequence_length,
                  most_common(Slice(y, r[k], r[k] + sequence_length)))]

\* SleepPhaseClassifier.prepare_windows(accel_data)
prepare_windows(n_samples, window_size) ==
    LET n_windows == n_samples \div window_size
        r == PyRange(0, n_windows, 1)
    IN [k \in 1..Len(r) |->
           Window(n_samples, r[k] * window_size, window_size, NoLabel)]

\* SleepPhaseClassifier.train(X_train, y_train): the windows and y_windowed
classifier_train_windows(y_train, window_size) ==
    LET X_features == prepare_windows(Len(y_train), window_size)
    IN [k \in 1..Len(X_features) |->
           LET start_idx == (k - 1) * window_size
               end_idx == start_idx + window_size
           IN [X_features[k] EXCEPT
                  !.label = most_common(Slice(y_train, start_idx, end_idx))]]

(***************************************************************************)
(* Feature extraction.                                                     *)
(***************************************************************************)
RECURSIVE SqrtSearch(_, _, _)
SqrtSearch(n, lo, hi) ==
    IF lo >= hi THEN lo
    ELSE LET mid == (lo + hi + 1) \div 2
         IN IF mid * mid <= n THEN SqrtSearch(n, mid, hi)
            ELSE SqrtSearch(n, lo, mid - 1)

\* np.sqrt on the integer grid: the integer square root (the search stays
\* below 46340, whose square is the largest that fits 32 bits)
np_sqrt(n) == SqrtSearch(n, 0, Min2(n, 46340))

\* np.sqrt(x**2 + y**2 + z**2) of one sample <<x, y, z>>
Magnitude(acc) == np_sqrt(acc[1] * acc[1] + acc[2] * acc[2] + acc[3] * acc[3])

\* SleepLSTMModel.prepare_features: each row x, y, z gets its magnitude appended
prepare_features(accel_data) ==
    [k \in 1..Len(accel_data) |->
        <<accel_data[k][1], accel_data[k][2], accel_data[k][3],
          Magnitude(accel_data[k])>>]

(***************************************************************************)
(* Rule-based classification of a session (main.py).                       *)
(***************************************************************************)
AWAKE == "awake"
LIGHT == "light"
DEEP == "deep"
REM == "rem"

\* n^2 * np.var(window): n * sum(x^2) - sum(x)^2, so that
\* np.std(window) < t  iff  VarN2(window) < t^2 * n^2
VarN2(window) ==
    Len(window) * SumSeq([k \in 1..Len(window) |-> window[k] * window[k]])
        - SumSeq(window) * SumSeq(window)

\* the if/elif chain of classify_sleep_phases on one window
classify_window(window) ==
    LET n == Len(window)
        total == SumSeq(window)
        max_movement == SeqMax(window)
    IN IF total > 40 * n \/ max_movement > 80 THEN AWAKE
       ELSE IF total < 8 * n /\ VarN2(window) < 9 * n * n THEN DEEP
       ELSE IF total > 15 * n /\ VarN2(window) > 25 * n * n THEN LIGHT
       ELSE REM

\* classify_sleep_phases(movements) with its local window_size as a parameter;
\* movement is the mean as [sum, n], movement_std the variance as [num, den]
classify_sleep_phases_w(movements, window_size) ==
    LET r == PyRange(0, Len(movements), window_size)
    IN [k \in 1..Len(r) |->
           LET window == Slice(movements, r[k], r[k] + window_size)
           IN [timestamp |-> r[k],
               phase |-> classify_window(window),
               movement |-> [sum |-> SumSeq(window), n |-> Len(window)],
               movement_std |-> [num |-> VarN2(window),
                                 den |-> Len(window) * Len(window)]]]

\* window_size = 30 in classify_sleep_phases
ANALYSIS_WINDOW == 30

classify_sleep_phases(movements) ==
    classify_sleep_phases_w(movements, ANALYSIS_WINDOW)

(***************************************************************************)
(* Specification SpecWin: the windowing routines as pure functions.  Init  *)
(* draws the per-sample input; each action runs one routine on it.         *)
(***************************************************************************)
\* one labelled sample per phase, with a movement magnitude typical of it
LabelledSamples ==
    { [mov |-> 50, label |-> 0], [mov |-> 20, label |-> 1],
      [mov |-> 5, label |-> 2], [mov |-> 10, label |-> 3] }

SeqsUpTo(S, n) == UNION {[1..m -> S] : m \in 0..n}

IdleCall == [method |-> "none"]

ObjIdle ==
    /\ obj = None
    /\ call = IdleCall
    /\ completed = FALSE
    /\ disk = [h5 |-> None, pkl |-> None, json |-> None]
ServiceIdle ==
    /\ started = FALSE
    /\ LSTM_AVAILABLE = FALSE
    /\ lstm_model = None
    /\ request = << >>
    /\ response = None
MetricsIdle ==
    /\ mPhases = << >>
    /\ mDuration = 0
    /\ mCall = IdleCall
SessionsIdle ==
    /\ sessions_db = [s \in SessionIds |-> None]
    /\ analysis_db = [s \in SessionIds |-> None]
    /\ http = None
RaceIdle == race = None
TrainIdle == run = None
OthersIdle == MetricsIdle /\ SessionsIdle /\ RaceIdle /\ TrainIdle

InitWin ==
    /\ wData \in SeqsUpTo(LabelledSamples, MaxLen)
    /\ wSize = 0
    /\ wStep = 0
    /\ wRoutine = "none"
    /\ wOut = << >>
    /\ ObjIdle
    /\ ServiceIdle
    /\ OthersIdle

Ran(routine, size, step, out) ==
    /\ wRoutine = "none"
    /\ wRoutine' = routine
    /\ wSize' = size
    /\ wStep' = step
    /\ wOut' = out
    /\ UNCHANGED <<wData, obj, call, completed, disk, started, LSTM_AVAILABLE,
                   lstm_model, request, response, mPhases, mDuration, mCall,
                   sessions_db, analysis_db, http, race, run>>

RunCreateSequences ==
    \E w \in 1..MaxWin :
        Ran("create_sequences", w, 1, create_sequences(Labels(wData), w))

RunTrainFinal ==
    \E w \in 1..MaxWin, s \in 1..MaxStep :
        Ran("train_final", w, s, train_final_windows(Labels(wData), w, s))

RunLoadAndPreprocess ==
    \E w \in 1..MaxWin :
        Ran("load_and_preprocess_data", w, 1,
            load_and_preprocess_windows(Labels(wData), w))

RunPrepareSequences ==
    \E w \in 1..MaxWin :
        Ran("prepare_sequences", w, 1, prepare_sequences(Labels(wData), w))

RunPrepareWindows ==
    \E w \in 1..MaxWin :
        Ran("prepare_windows", w, w, prepare_windows(Len(wData), w))

RunClassifierTrain ==
    \E w \in 1..MaxWin :
        Ran("classifier_train", w, w,
            classifier_train_windows(Labels(wData), w))

RunClassifySleepPhases ==
    \E w \in 1..MaxWin :
        Ran("classify_sleep_phases", w, w,
            classify_sleep_phases_w(Movs(wData), w))

NextWin ==
    \/ RunCreateSequences
    \/ RunTrainFinal
    \/ RunLoadAndPreprocess
    \/ RunPrepareSequences
    \/ RunPrepareWindows
    \/ RunClassifierTrain
    \/ RunClassifySleepPhases

SpecWin == InitWin /\ [][NextWin]_vars

(***************************************************************************)
(* Claims about the windowing routines (checked under SpecWin).            *)
(***************************************************************************)
PHASES == 0..3

\* the labels of the samples window k of wOut was cut from
WindowLabels(k) ==
    [j \in 1..Len(wOut[k].idx) |-> At(Labels(wData), wOut[k].idx[j])]

\* C1: the sliding-window loops (create_sequences, the train_final loop,
\* load_and_preprocess_data) produce floor((N - W) / S) + 1 windows when
\* N >= W and none when N < W, so that N = W gives one window and the last
\* sample of the input lies in some window.
CE_C1_WindowCount ==
    wRoutine \in {"create_sequences", "train_final", "load_and_preprocess_data"}
    => LET N == Len(wData)
       IN /\ Len(wOut) = IF N >= wSize THEN ((N - wSize) \div wStep) + 1 ELSE 0
          /\ (N = wSize => Len(wOut) = 1)

\* C2: non-overlapping windowing (prepare_windows, classify_sleep_phases)
\* produces exactly N // window_size windows and no window with fewer than
\* window_size samples.
CE_C2_NoPartialWindow ==
    /\ wRoutine = "prepare_windows"
       => /\ Len(wOut) = Len(wData) \div wSize
          /\ \A k \in 1..Len(wOut) : Len(wOut[k].idx) = wSize
    /\ wRoutine = "classify_sleep_phases"
       => /\ Len(wOut) = Len(wData) \div wSize
          /\ \A k \in 1..Len(wOut) : wOut[k].movement.n = wSize

\* C3: the label of window i is a phase with the highest count among the
\* labels of samples i*step .. i*step + window_size - 1.
CE_C3_LabelFromWindow ==
    wRoutine \in {"create_sequences", "classifier_train", "prepare_sequences",
                  "train_final"}
    => \A k \in 1..Len(wOut) :
          LET first == (k - 1) * wStep
              inside == Slice(Labels(wData), first, first + wSize)
          IN \A c \in PHASES :
                CountOf(c, inside) <= CountOf(wOut[k].label, inside)

\* C4: majority-vote labeling (np.bincount(...).argmax()) gives the smallest
\* phase number among the phases with the highest count in the window:
\* labels [0,0,1,1,1] give 1 and the tie [0,0,1,1] gives 0.
MajorityRoutines ==
    {"train_final", "classifier_train", "load_and_preprocess_data",
     "prepare_sequences"}

T_C4_TieLowestIndex ==
    wRoutine \in MajorityRoutines
    => \A k \in 1..Len(wOut) :
          LET lab == WindowLabels(k)
              best == {c \in PHASES :
                          \A d \in PHASES : CountOf(d, lab) <= CountOf(c, lab)}
          IN /\ wOut[k].label \in best
             /\ \A c \in best : wOut[k].label <= c
             /\ (lab = <<0, 0, 1, 1, 1>> => wOut[k].label = 1)
             /\ (lab = <<0, 0, 1, 1>> => wOut[k].label = 0)

\* a tie between phases 0 and 1 was voted on by SleepPhaseClassifier.train
W_C4_TieVoted ==
    /\ wRoutine = "classifier_train"
    /\ Len(wOut) = 1
    /\ WindowLabels(1) = <<0, 0, 1, 1>>
    /\ wOut[1].label = 0

(***************************************************************************)
(* SleepLSTMModel (lstm_model.py).  An instance is the record              *)
(* [sequence_length, model, scaler, is_trained]; n_features is 4.          *)
(* A scaler is [fitted |-> FALSE] or [fitted |-> TRUE, mean, scale] with   *)
(* one mean and one scale per feature.  A Keras model is [w |-> weights];  *)
(* its numerical layers are outside this development, so the network is    *)
(* an arbitrary fixed function NetPredict of the weights and of every      *)
(* entry of the input window, in order.                                    *)
(***************************************************************************)
N_FEATURES == 4

phase_map == <<AWAKE, LIGHT, DEEP, REM>>

Raise(exc, msg) == [kind |-> "raise", exc |-> exc, msg |-> msg]

NOT_TRAINED == "Model must be trained before prediction"
NEED_SAMPLES == "Need at least sequence_length samples for prediction"

\* SleepLSTMModel.__init__
new_model(sequence_length) ==
    [sequence_length |-> sequence_length, model |-> None,
     scaler |-> [fitted |-> FALSE], is_trained |-> FALSE]

Column(rows, f) == [k \in 1..Len(rows) |-> rows[k][f]]

\* StandardScaler.fit on at least one row: per-feature mean and standard
\* deviation, a zero deviation replaced by 1.0
scaler_fit(rows) ==
    LET n == Len(rows)
        mean(f) == SumSeq(Column(rows, f)) \div n
        std(f) == np_sqrt(VarN2(Column(rows, f)) \div (n * n))
    IN [fitted |-> TRUE,
        mean |-> [f \in 1..N_FEATURES |-> mean(f)],
        scale |-> [f \in 1..N_FEATURES |-> IF std(f) = 0 THEN 100 ELSE std(f)]]

\* StandardScaler.transform of a fitted scaler: (x - mean) / scale per feature
scaler_transform(scaler, rows) ==
    [k \in 1..Len(rows) |->
        [f \in 1..N_FEATURES |->
            ((rows[k][f] - scaler.mean[f]) * 100) \div scaler.scale[f]]]

\* self.model.predict on one window: the softmax output as a sequence of four
\* probabilities (hundredths) summing to 100, entry c+1 for class c
NetPredict(model, window) ==
    LET score == SumSeq([k \in 1..Len(window) |->
                     k * (window[k][1] + window[k][2] + window[k][3]
                          + window[k][4])])
        h == (score + model.w) % 8
    IN IF h < 4
       THEN [c \in 1..4 |-> IF c - 1 = h THEN 70 ELSE 10]
       ELSE [c \in 1..4 |->
                IF c - 1 = h - 4 \/ c - 1 = (h - 3) % 4 THEN 40 ELSE 10]

\* the result dict predict and predict_realtime build from one softmax output
\* with the class index they took
prediction_dict(pred, phase_idx) ==
    [phase |-> phase_map[phase_idx + 1],
     confidence |-> pred[phase_idx + 1],
     probabilities |-> [awake |-> pred[1], light |-> pred[2],
                        deep |-> pred[3], rem |-> pred[4]]]

\* SleepLSTMModel.predict(accel_data)
predict(self, accel_data) ==
    IF ~self.is_trained THEN Raise("ValueError", NOT_TRAINED)
    ELSE IF ~self.scaler.fitted
         THEN Raise("NotFittedError", "StandardScaler is not fitted")
    ELSE IF Len(accel_data) = 0
         THEN Raise("ValueError", "Found array with 0 sample(s)")
    ELSE LET features == prepare_features(accel_data)
             features_scaled == scaler_transform(self.scaler, features)
             sequences == create_sequences_unlabelled(Len(features_scaled),
                                                      self.sequence_length)
         IN IF Len(sequences) = 0
            THEN Raise("ValueError", "Empty batch_outputs")
            ELSE [kind |-> "ok",
                  results |->
                    [i \in 1..Len(sequences) |->
                        LET seq == [j \in 1..Len(sequences[i].idx) |->
                                      At(features_scaled, sequences[i].idx[j])]
                            pred == NetPredict(self.model, seq)
                            phase_idx == np_argmax(pred)
                        IN [timestamp_index |-> (i - 1) + self.sequence_length,
                            prediction |-> prediction_dict(pred, phase_idx)]]]

\* SleepLSTMModel.predict_realtime(recent_data)
predict_realtime(self, recent_data) ==
    IF Len(recent_data) < self.sequence_length
    THEN Raise("ValueError", NEED_SAMPLES)
    ELSE LET recent_sequence == LastN(recent_data, self.sequence_length)
             features == prepare_features(recent_sequence)
         IN IF ~self.scaler.fitted
            THEN Raise("NotFittedError", "StandardScaler is not fitted")
            ELSE IF self.model = None
            THEN Raise("AttributeError", "NoneType has no attribute predict")
            ELSE LET features_scaled == scaler_transform(self.scaler, features)
                     prediction == NetPredict(self.model, features_scaled)
                     phase_idx == np_argmax(prediction)
                 IN [kind |-> "ok",
                     prediction |-> prediction_dict(prediction, phase_idx)]

\* the outcome of a method that changes the instance: the instance after the
\* call and what the call returned or raised
After(self, outcome) == [self |-> self, outcome |-> outcome]

Returned == [kind |-> "ok"]

\* SleepLSTMModel.build_model; w0 is the random initialisation
build_model(self, w0) == [self EXCEPT !.model = [w |-> w0]]

\* SleepLSTMModel.train(X_train, y_train) without validation data.  w0 is the
\* initialisation build_model draws, w1 the weights model.fit leaves behind,
\* fit_ok whether model.fit returned (it updates the weights in place, so an
\* interrupted fit leaves w1 behind as well)
train(self, X_train, y_train, w0, w1, fit_ok) ==
    LET built == IF self.model = None THEN build_model(self, w0) ELSE self
    IN IF Len(X_train) = 0
       THEN After(built, Raise("ValueError", "Found array with 0 sample(s)"))
       ELSE LET X_train_features == prepare_features(X_train)
                fitted == [built EXCEPT !.scaler = scaler_fit(X_train_features)]
                X_train_seq == create_sequences(y_train, self.sequence_length)
            IN IF Len(X_train_seq) = 0
               THEN After(fitted, Raise("ValueError", "Empty training data"))
               ELSE IF ~fit_ok
               THEN After([fitted EXCEPT !.model = [w |-> w1]],
                          Raise("RuntimeError", "model.fit failed"))
               ELSE After([fitted EXCEPT !.model = [w |-> w1],
                                         !.is_trained = TRUE],
                          Returned)

\* SleepLSTMModel.save_model: the files after the call, and its outcome
save_model(self, files) ==
    IF self.model = None
    THEN [files |-> files,
          outcome |-> Raise("AttributeError", "NoneType has no attribute save")]
    ELSE [files |-> [files EXCEPT !.h5 = self.model, !.pkl = self.scaler],
          outcome |-> Returned]

\* SleepLSTMModel.load_model
load_model(self, files) ==
    IF files.h5 = None
    THEN After(self, Raise("OSError", "No file or directory found"))
    ELSE LET loaded == [self EXCEPT !.model = files.h5]
         IN IF files.pkl = None
            THEN After(loaded, Raise("FileNotFoundError", "scaler.pkl"))
            ELSE After([loaded EXCEPT !.scaler = files.pkl,
                                      !.is_trained = TRUE],
                       Returned)

(***************************************************************************)
(* Specification SpecLSTM: one SleepLSTMModel instance and the calls made  *)
(* on it.                                                                  *)
(***************************************************************************)
\* the network parameters a build, a fit or a model file can hold
Weights == {0, 1}

\* labelled accelerations with integral magnitudes 5, 20 and 50
SampleDeep == [acc |-> <<0, 0, 5>>, label |-> 2]
SampleLight == [acc |-> <<12, 16, 0>>, label |-> 1]
SampleAwake == [acc |-> <<30, 40, 0>>, label |-> 0]

\* arrays handed to predict and predict_realtime
ObjSamples == {SampleDeep, SampleAwake}

\* training sets handed to train: an empty one and one long enough to yield
\* sequences for every sequence_length tried
TrainSets ==
    { << >>, <<SampleAwake, SampleAwake, SampleDeep, SampleLight>> }

Accs(data) == [k \in 1..Len(data) |-> data[k].acc]

\* a scaler as a training run would have pickled it
ArtifactScaler ==
    scaler_fit(prepare_features(<<(<<0, 0, 5>>), (<<12, 16, 0>>)>>))

\* the metadata the training scripts dump to models/model_metadata.json
\* (trained_date, test_accuracy and dataset are read by nothing)
METADATA_WINDOW_SIZE == 60      \* 'window_size': 60

model_metadata ==
    [window_size |-> METADATA_WINDOW_SIZE, n_features |-> N_FEATURES,
     n_classes |-> Len(phase_map), stage_mapping |-> phase_map]

\* the model directory before the program runs: empty; as train_final.py and
\* train_with_real_data.py leave it (the model file and the metadata, the
\* scaler in models/scaler.pkl and so no _scaler.pkl); as save_model leaves it
\* (the model file and its _scaler.pkl, no metadata)
InitialDisks ==
    { [h5 |-> None, pkl |-> None, json |-> None],
      [h5 |-> [w |-> 0], pkl |-> None,
       json |-> model_metadata],
      [h5 |-> [w |-> 0], pkl |-> ArtifactScaler, json |-> None] }

WinIdle ==
    /\ wData = << >>
    /\ wSize = 0
    /\ wStep = 0
    /\ wRoutine = "none"
    /\ wOut = << >>

InitLSTM ==
    /\ \E sequence_length \in 1..MaxSeqLen : obj = new_model(sequence_length)
    /\ call = IdleCall
    /\ completed = FALSE
    /\ disk \in InitialDisks
    /\ WinIdle
    /\ ServiceIdle
    /\ OthersIdle

NotObj == <<wData, wSize, wStep, wRoutine, wOut, started, LSTM_AVAILABLE,
            lstm_model, request, response, mPhases, mDuration, mCall,
            sessions_db, analysis_db, http, race, run>>

CallBuildModel ==
    \E w0 \in Weights :
        /\ obj' = build_model(obj, w0)
        /\ call' = [method |-> "build_model", data |-> << >>,
                    outcome |-> Returned]
        /\ UNCHANGED <<completed, disk>>
        /\ UNCHANGED NotObj

CallTrain ==
    \E data \in TrainSets, w0 \in Weights, w1 \in Weights,
       fit_ok \in BOOLEAN :
        LET r == train(obj, Accs(data), Labels(data), w0, w1, fit_ok)
        IN /\ obj' = r.self
           /\ call' = [method |-> "train", data |-> Accs(data),
                       outcome |-> r.outcome]
           /\ completed' = (completed \/ r.outcome = Returned)
           /\ UNCHANGED disk
           /\ UNCHANGED NotObj

CallSaveModel ==
    LET r == save_model(obj, disk)
    IN /\ disk' = r.files
       /\ call' = [method |-> "save_model", data |-> << >>,
                   outcome |-> r.outcome]
       /\ UNCHANGED <<obj, completed>>
       /\ UNCHANGED NotObj

CallLoadModel ==
    LET r == load_model(obj, disk)
    IN /\ obj' = r.self
       /\ call' = [method |-> "load_model", data |-> << >>,
                   outcome |-> r.outcome]
       /\ completed' = (completed \/ r.outcome = Returned)
       /\ UNCHANGED disk
       /\ UNCHANGED NotObj

CallPredict ==
    \E data \in SeqsUpTo(ObjSamples, MaxObjLen) :
        /\ call' = [method |-> "predict", data |-> Accs(data),
                    outcome |-> predict(obj, Accs(data))]
        /\ UNCHANGED <<obj, completed, disk>>
        /\ UNCHANGED NotObj

CallPredictRealtime ==
    \E data \in SeqsUpTo(ObjSamples, MaxObjLen) :
        /\ call' = [method |-> "predict_realtime", data |-> Accs(data),
                    outcome |-> predict_realtime(obj, Accs(data))]
        /\ UNCHANGED <<obj, completed, disk>>
        /\ UNCHANGED NotObj

NextLSTM ==
    \/ CallBuildModel
    \/ CallTrain
    \/ CallSaveModel
    \/ CallLoadModel
    \/ CallPredict
    \/ CallPredictRealtime

SpecLSTM == InitLSTM /\ [][NextLSTM]_vars

(***************************************************************************)
(* Claims about SleepLSTMModel (checked under SpecLSTM).                   *)
(***************************************************************************)
\* C5: an instance on which no train and no load_model has completed is
\* untrained, and predict and predict_realtime then reject the call with the
\* not-trained error (stated here for calls that carry at least
\* sequence_length samples, where no other precondition is at stake).
CE_C5_UntrainedRejects ==
    ~completed
    => /\ ~obj.is_trained
       /\ (/\ call.method \in {"predict", "predict_realtime"}
           /\ Len(call.data) >= obj.sequence_length)
          => call.outcome = Raise("ValueError", NOT_TRAINED)

(***************************************************************************)
(* The service (main.py): module import, then /realtime/predict.           *)
(* A SensorData item is [accel_x, accel_y, accel_z], with its timestamp    *)
(* where it is stored in a session; the optional sound and light levels    *)
(* are read by no code modelled here.                                      *)
(***************************************************************************)
SERVICE_SEQUENCE_LENGTH == 60   \* SleepLSTMModel(sequence_length=60, ...)
MIN_POINTS == 60                \* if len(sensor_data) < 60
MODEL_RECENT == 60              \* sensor_data[-60:] on the model path
FALLBACK_RECENT == 60           \* sensor_data[-60:] on the fallback path

\* the module-level try/except of main.py without the LSTM_AVAILABLE = False
\* of its else branch
startup_flag_left(files, import_ok) ==
    IF ~import_ok
    THEN [LSTM_AVAILABLE |-> FALSE, lstm_model |-> None]
    ELSE LET fresh == new_model(SERVICE_SEQUENCE_LENGTH)
         IN IF files.h5 # None
            THEN LET r == load_model(fresh, files)
                 IN IF r.outcome = Returned
                    THEN [LSTM_AVAILABLE |-> TRUE, lstm_model |-> r.self]
                    ELSE [LSTM_AVAILABLE |-> FALSE, lstm_model |-> None]
            ELSE [LSTM_AVAILABLE |-> TRUE, lstm_model |-> fresh]

\* the module-level try/except of main.py.  import_ok: whether
\* "from lstm_model import SleepLSTMModel" succeeds
startup(files, import_ok) ==
    IF ~import_ok
    THEN [LSTM_AVAILABLE |-> FALSE, lstm_model |-> None]
    ELSE LET fresh == new_model(SERVICE_SEQUENCE_LENGTH)
         IN IF files.h5 # None
            THEN LET r == load_model(fresh, files)
                 IN IF r.outcome = Returned
                    THEN [LSTM_AVAILABLE |-> TRUE, lstm_model |-> r.self]
                    ELSE [LSTM_AVAILABLE |-> FALSE, lstm_model |-> None]
            ELSE [LSTM_AVAILABLE |-> FALSE, lstm_model |-> fresh]

HTTPException(status_code, detail) ==
    [status |-> status_code, detail |-> detail]

\* a variant of the length check that also turns away exactly 60 samples
too_few_le(sensor_data) == Len(sensor_data) <= MIN_POINTS

\* len(sensor_data) < 60
too_few(sensor_data) == Len(sensor_data) < MIN_POINTS

\* LSTM_AVAILABLE and lstm_model.is_trained
use_model(available, model) == available /\ model.is_trained

Row(d) == <<d.accel_x, d.accel_y, d.accel_z>>

\* a variant that takes the oldest 60 samples
model_recent_oldest(sensor_data) ==
    [k \in 1..Len(SubSeq(sensor_data, 1, MODEL_RECENT)) |-> Row(sensor_data[k])]

\* np.array([[d.accel_x, d.accel_y, d.accel_z] for d in sensor_data[-60:]])
model_recent(sensor_data) ==
    LET recent == LastN(sensor_data, MODEL_RECENT)
    IN [k \in 1..Len(recent) |-> Row(recent[k])]

\* the magnitudes of sensor_data[-60:]
fallback_movements(sensor_data) ==
    LET recent == LastN(sensor_data, FALLBACK_RECENT)
    IN [k \in 1..Len(recent) |-> Magnitude(Row(recent[k]))]

\* a variant of the chain that tests the light threshold before the deep one
\* and includes 0.15 in it
fallback_phase_ge(movements) ==
    LET n == Len(movements)
        total == SumSeq(movements)
    IN IF total > 40 * n THEN AWAKE
       ELSE IF total >= 15 * n THEN LIGHT
       ELSE IF total < 8 * n THEN DEEP
       ELSE REM

\* the if/elif chain on avg_movement = np.mean(movements) = total / n
fallback_phase(movements) ==
    LET n == Len(movements)
        total == SumSeq(movements)
    IN IF total > 40 * n THEN AWAKE
       ELSE IF total < 8 * n THEN DEEP
       ELSE IF total > 15 * n THEN LIGHT
       ELSE REM

\* a variant that answers 503 when no trained classifier is there, instead
\* of classifying by the movement thresholds
predict_current_phase_no_fallback(available, model, sensor_data) ==
    IF too_few(sensor_data)
    THEN HTTPException(400, "Need at least 60 data points")
    ELSE IF use_model(available, model)
    THEN LET r == predict_realtime(model, model_recent(sensor_data))
         IN IF r.kind = "raise"
            THEN HTTPException(500, "Prediction failed")
            ELSE [status |-> 200,
                  current_phase |-> r.prediction.phase,
                  confidence |-> r.prediction.confidence,
                  probabilities |-> r.prediction.probabilities,
                  is_light_sleep |-> (r.prediction.phase = LIGHT)]
    ELSE HTTPException(503, "LSTM model not available")

\* predict_current_phase(sensor_data) with the two globals it reads; the
\* timestamp of the response is left out
predict_current_phase(available, model, sensor_data) ==
    IF too_few(sensor_data)
    THEN HTTPException(400, "Need at least 60 data points")
    ELSE IF use_model(available, model)
    THEN LET recent_data == model_recent(sensor_data)
             r == predict_realtime(model, recent_data)
         IN IF r.kind = "raise"
            THEN HTTPException(500, "Prediction failed")
            ELSE [status |-> 200,
                  current_phase |-> r.prediction.phase,
                  confidence |-> r.prediction.confidence,
                  probabilities |-> r.prediction.probabilities,
                  is_light_sleep |-> (r.prediction.phase = LIGHT)]
    ELSE LET phase == fallback_phase(fallback_movements(sensor_data))
         IN [status |-> 200,
             current_phase |-> phase,
             confidence |-> 70,
             probabilities |-> [awake |-> 25, light |-> 25,
                                deep |-> 25, rem |-> 25],
             is_light_sleep |-> (phase = LIGHT)]

(***************************************************************************)
(* The sleep metrics of main.py.  A duration is an integer in hundredths   *)
(* of hours (7.0 is 700), as calculate_sleep_duration rounds it; a score   *)
(* and an efficiency are integers in hundredths of points (80.00 is 8000). *)
(* The percentages are the exact rationals count / total, and a sub-score  *)
(* is carried as its numerator over ScoreDen(total) = 420 * total, the     *)
(* common denominator of every branch; thresholds are compared by          *)
(* cross-multiplication.                                                   *)
(***************************************************************************)
\* round(num / den, 2) in hundredths, for den > 0; a value exactly half-way
\* between two hundredths goes to the even one
round2(num, den) ==
    LET q == (100 * num) \div den
        r == (100 * num) % den
    IN IF 2 * r > den \/ (2 * r = den /\ q % 2 = 1) THEN q + 1 ELSE q

\* sum(1 for p in phases if p["phase"] == phase)
PhaseCount(phases, phase) ==
    Cardinality({k \in 1..Len(phases) : phases[k].phase = phase})

ScoreDen(total) == 420 * total

\* deep_score; deep_pct = count / total
deep_score(count, total) ==
    IF 15 * total <= 100 * count /\ 100 * count <= 25 * total
    THEN 25 * ScoreDen(total)
    ELSE IF 100 * count > 25 * total
    \* 25 - (deep_pct - 0.25) * 50
    THEN Max2(0, 25 * ScoreDen(total) - (100 * count - 25 * total) * 210)
    \* deep_pct / 0.15 * 25
    ELSE 70000 * count

\* a variant of rem_score whose ramp ends at 0.15, as the ramp of deep_score
rem_score_ramp_15(count, total) ==
    IF 20 * total <= 100 * count /\ 100 * count <= 25 * total
    THEN 25 * ScoreDen(total)
    ELSE IF 100 * count > 25 * total
    THEN Max2(0, 25 * ScoreDen(total) - (100 * count - 25 * total) * 210)
    ELSE 70000 * count

\* rem_score; rem_pct = count / total
rem_score(count, total) ==
    IF 20 * total <= 100 * count /\ 100 * count <= 25 * total
    THEN 25 * ScoreDen(total)
    ELSE IF 100 * count > 25 * total
    \* 25 - (rem_pct - 0.25) * 50
    THEN Max2(0, 25 * ScoreDen(total) - (100 * count - 25 * total) * 210)
    \* rem_pct / 0.20 * 25
    ELSE 52500 * count

\* light_score; light_pct = count / total
light_score(count, total) ==
    IF 45 * total <= 100 * count /\ 100 * count <= 55 * total
    THEN 20 * ScoreDen(total)
    \* 20 - abs(light_pct - 0.50) * 40
    ELSE LET diff2 == IF 2 * count >= total THEN 2 * count - total
                      ELSE total - 2 * count
         IN Max2(0, 20 * ScoreDen(total) - diff2 * 8400)

\* duration_score; duration in hundredths of hours
duration_score(duration, total) ==
    IF 700 <= duration /\ duration <= 900
    THEN 20 * ScoreDen(total)
    ELSE IF duration < 700
    \* duration / 7 * 20
    THEN Max2(0, 12 * duration * total)
    \* 20 - (duration - 9) * 5
    ELSE Max2(0, 20 * ScoreDen(total) - (duration - 900) * 21 * total)

\* min(awake_pct * 100, 10)
awake_penalty(count, total) == Min2(42000 * count, 10 * ScoreDen(total))

\* a variant that returns the raw sum
clamp_score_none(score, total) == score

\* max(0, min(100, score))
clamp_score(score, total) == Max2(0, Min2(100 * ScoreDen(total), score))

\* the sum of the sub-scores less the penalty, before the clamp
raw_score(phases, duration) ==
    LET total_phases == Len(phases)
    IN deep_score(PhaseCount(phases, DEEP), total_phases)
       + rem_score(PhaseCount(phases, REM), total_phases)
       + light_score(PhaseCount(phases, LIGHT), total_phases)
       + duration_score(duration, total_phases)
       - awake_penalty(PhaseCount(phases, AWAKE), total_phases)

calculate_sleep_score(phases, duration) ==
    IF duration = 0 \/ Len(phases) = 0
    THEN 0
    ELSE round2(clamp_score(raw_score(phases, duration), Len(phases)),
                ScoreDen(Len(phases)))

\* a variant that counts the awake windows
calculate_sleep_efficiency_awake(phases, duration) ==
    IF Len(phases) = 0
    THEN 0
    ELSE round2(PhaseCount(phases, AWAKE) * 100, Len(phases))

\* duration is a parameter the function never reads
calculate_sleep_efficiency(phases, duration) ==
    IF Len(phases) = 0
    THEN 0
    ELSE LET asleep_phases ==
                 Cardinality({k \in 1..Len(phases) : phases[k].phase # AWAKE})
         IN round2(asleep_phases * 100, Len(phases))

\* The messages of generate_recommendations, by what they say.
NOT_ENOUGH_DATA == "Not enough data to generate recommendations."
OverallMessages == {"Excellent sleep", "Good sleep quality", "Fair sleep",
                    "Poor sleep quality"}
DeepMessages == {"Low deep sleep", "Unusually high deep sleep"}
RemMessages == {"Low REM sleep", "High REM sleep"}
AwakeMessages == {"Frequent awakenings", "Some awakenings"}
LightMessages == {"Low light sleep", "High light sleep"}
GENERAL_TIPS == "General tips"

\* the messages one rule appends: none or one
overall_rule(score) ==
    IF score >= 8500 THEN <<"Excellent sleep">>
    ELSE IF score >= 7000 THEN <<"Good sleep quality">>
    ELSE IF score >= 5000 THEN <<"Fair sleep">>
    ELSE <<"Poor sleep quality">>

deep_rule(count, total) ==
    IF 100 * count < 13 * total THEN <<"Low deep sleep">>
    ELSE IF 100 * count > 30 * total THEN <<"Unusually high deep sleep">>
    ELSE << >>

rem_rule(count, total) ==
    IF 100 * count < 15 * total THEN <<"Low REM sleep">>
    ELSE IF 100 * count > 30 * total THEN <<"High REM sleep">>
    ELSE << >>

awake_rule(count, total) ==
    IF 100 * count > 10 * total THEN <<"Frequent awakenings">>
    ELSE IF 100 * count > 5 * total THEN <<"Some awakenings">>
    ELSE << >>

light_rule(count, total) ==
    IF 100 * count < 35 * total THEN <<"Low light sleep">>
    ELSE IF 100 * count > 65 * total THEN <<"High light sleep">>
    ELSE << >>

\* a variant that gives the general tips at a score of exactly 70 as well
tips_rule_le(score) == IF score <= 7000 THEN <<GENERAL_TIPS>> ELSE << >>

tips_rule(score) == IF score < 7000 THEN <<GENERAL_TIPS>> ELSE << >>

\* a variant that returns the empty list for an empty phase list
generate_recommendations_empty(score, phases) ==
    IF Len(phases) = 0
    THEN << >>
    ELSE LET total == Len(phases)
         IN overall_rule(score)
            \o deep_rule(PhaseCount(phases, DEEP), total)
            \o rem_rule(PhaseCount(phases, REM), total)
            \o awake_rule(PhaseCount(phases, AWAKE), total)
            \o light_rule(PhaseCount(phases, LIGHT), total)
            \o tips_rule(score)

generate_recommendations(score, phases) ==
    IF Len(phases) = 0
    THEN <<NOT_ENOUGH_DATA>>
    ELSE LET total == Len(phases)
         IN overall_rule(score)
            \o deep_rule(PhaseCount(phases, DEEP), total)
            \o rem_rule(PhaseCount(phases, REM), total)
            \o awake_rule(PhaseCount(phases, AWAKE), total)
            \o light_rule(PhaseCount(phases, LIGHT), total)
            \o tips_rule(score)

(***************************************************************************)
(* The session endpoints of main.py.  sessions_db and analysis_db map a    *)
(* session id to a record, or to None where the dict has no such key.  A   *)
(* time is an integer in seconds; datetime.now() is the argument now.      *)
(***************************************************************************)
\* a dict key that is set, where None stands for a key that is not
Some(v) == [some |-> v]

\* f"{user_id}_{datetime.now().timestamp()}"
session_id_of(user_id, now) == <<user_id, now>>

\* an exception no handler catches: the framework answers 500
InternalServerError == [status |-> 500, detail |-> "Internal Server Error"]

\* POST /sessions/start.  A handler yields the two stores and its response.
start_session(sessions, analyses, user_id, now) ==
    LET session_id == session_id_of(user_id, now)
    IN [sessions_db |-> [sessions EXCEPT ![session_id] =
                            [user_id |-> user_id,
                             start_time |-> now,
                             sensor_data |-> << >>,
                             status |-> "active",
                             end_time |-> None]],
        analysis_db |-> analyses,
        response |-> [status |-> 200, session_id |-> session_id,
                      start_time |-> now]]

\* POST /sessions/{session_id}/data as it would be if an unknown session id
\* opened a session instead of raising 404
add_sensor_data_upsert(sessions, analyses, session_id, data) ==
    IF sessions[session_id] = None
    THEN [sessions_db |-> [sessions EXCEPT ![session_id] =
                              [user_id |-> session_id[1],
                               start_time |-> session_id[2],
                               sensor_data |-> data,
                               status |-> "active",
                               end_time |-> None]],
          analysis_db |-> analyses,
          response |-> [status |-> 200, message |-> "Data added successfully",
                        count |-> Len(data)]]
    ELSE [sessions_db |-> [sessions EXCEPT ![session_id].sensor_data = @ \o data],
          analysis_db |-> analyses,
          response |-> [status |-> 200, message |-> "Data added successfully",
                        count |-> Len(data)]]

\* POST /sessions/{session_id}/data
add_sensor_data(sessions, analyses, session_id, data) ==
    IF sessions[session_id] = None
    THEN [sessions_db |-> sessions, analysis_db |-> analyses,
          response |-> HTTPException(404, "Session not found")]
    ELSE [sessions_db |-> [sessions EXCEPT ![session_id].sensor_data = @ \o data],
          analysis_db |-> analyses,
          response |-> [status |-> 200, message |-> "Data added successfully",
                        count |-> Len(data)]]

\* POST /sessions/{session_id}/stop
stop_session(sessions, analyses, session_id, now) ==
    IF sessions[session_id] = None
    THEN [sessions_db |-> sessions, analysis_db |-> analyses,
          response |-> HTTPException(404, "Session not found")]
    ELSE [sessions_db |-> [sessions EXCEPT ![session_id].end_time = Some(now),
                                           ![session_id].status = "completed"],
          analysis_db |-> analyses,
          response |-> [status |-> 200, message |-> "Session stopped",
                        end_time |-> now]]

\* calculate_sleep_duration(session), in hundredths of hours
calculate_sleep_duration(session) ==
    IF session.end_time # None
    THEN round2(session.end_time.some - session.start_time, 3600)
    ELSE 0

\* np.array([[d.accel_x, d.accel_y, d.accel_z] for d in sensor_data]): the
\* stored items are the dicts d.dict() of add_sensor_data, and a dict has no
\* attribute accel_x
accel_data_of(sensor_data) ==
    IF Len(sensor_data) = 0
    THEN [kind |-> "ok", value |-> << >>]
    ELSE Raise("AttributeError", "'dict' object has no attribute 'accel_x'")

\* the list of dicts SleepLSTMModel.predict returns
predict_dicts(results) ==
    [k \in 1..Len(results) |->
        [timestamp_index |-> results[k].timestamp_index,
         phase |-> results[k].prediction.phase,
         confidence |-> results[k].prediction.confidence,
         probabilities |-> results[k].prediction.probabilities]]

\* the phases of analyze_session: [kind |-> "ok", phases, by] or a raise
session_phases(available, model, sensor_data) ==
    LET movements == [k \in 1..Len(sensor_data) |->
                         Magnitude(Row(sensor_data[k]))]
    IN IF use_model(available, model)
       THEN LET accel_data == accel_data_of(sensor_data)
            IN IF accel_data.kind = "raise"
               THEN accel_data
               ELSE LET r == predict(model, accel_data.value)
                    IN IF r.kind = "raise"
                       THEN [kind |-> "ok", by |-> "rules",
                             phases |-> classify_sleep_phases(movements)]
                       ELSE [kind |-> "ok", by |-> "lstm",
                             phases |-> predict_dicts(r.results)]
       ELSE [kind |-> "ok", by |-> "rules",
             phases |-> classify_sleep_phases(movements)]

\* POST /analyze/{session_id}
analyze_session(available, model, sessions, analyses, session_id) ==
    IF sessions[session_id] = None
    THEN [sessions_db |-> sessions, analysis_db |-> analyses,
          response |-> HTTPException(404, "Session not found")]
    ELSE LET session == sessions[session_id]
             sensor_data == session.sensor_data
         IN IF Len(sensor_data) = 0
            THEN [sessions_db |-> sessions, analysis_db |-> analyses,
                  response |-> HTTPException(400, "No sensor data available")]
            ELSE LET p == session_phases(available, model, sensor_data)
                 IN IF p.kind = "raise"
                    THEN [sessions_db |-> sessions, analysis_db |-> analyses,
                          response |-> InternalServerError]
                    ELSE LET phases == p.phases
                             total_sleep_time == calculate_sleep_duration(session)
                             sleep_score ==
                                 calculate_sleep_score(phases, total_sleep_time)
                             analysis ==
                                 [session_id |-> session_id,
                                  sleep_score |-> sleep_score,
                                  total_sleep_time |-> total_sleep_time,
                                  sleep_efficiency |->
                                      calculate_sleep_efficiency(phases,
                                                                 total_sleep_time),
                                  phases |-> phases,
                                  recommendations |->
                                      generate_recommendations(sleep_score,
                                                               phases)]
                         IN [sessions_db |-> sessions,
                             analysis_db |->
                                 [analyses EXCEPT ![session_id] = analysis],
                             response |-> [status |-> 200, body |-> analysis]]

\* GET /analysis/{session_id}
get_analysis(sessions, analyses, session_id) ==
    IF analyses[session_id] = None
    THEN [sessions_db |-> sessions, analysis_db |-> analyses,
          response |-> HTTPException(404, "Analysis not found")]
    ELSE [sessions_db |-> sessions, analysis_db |-> analyses,
          response |-> [status |-> 200, body |-> analyses[session_id]]]

(***************************************************************************)
(* Specification Spec: the service.                                        *)
(***************************************************************************)
\* accelerations with integral magnitudes 5, 8, 15, 20, 40, 50 and 900
ServiceAccs ==
    { <<0, 0, 5>>, <<0, 0, 8>>, <<9, 12, 0>>, <<12, 16, 0>>, <<24, 32, 0>>,
      <<30, 40, 0>>, <<0, 0, 900>> }

SensorData(acc) == [accel_x |-> acc[1], accel_y |-> acc[2], accel_z |-> acc[3]]

\* n1 samples a followed by n2 samples b
TwoRuns(a, n1, b, n2) ==
    [k \in 1..(n1 + n2) |-> IF k <= n1 THEN SensorData(a) ELSE SensorData(b)]

\* model directories the service can find at import: those of InitialDisks,
\* one where a training script and save_model have both written (all three
\* files), and a scaler pickled before it was ever fitted
ServiceDisks ==
    InitialDisks
    \cup { [h5 |-> [w |-> 1], pkl |-> ArtifactScaler,
            json |-> model_metadata],
           [h5 |-> [w |-> 0], pkl |-> [fitted |-> FALSE], json |-> None] }

Init ==
    /\ WinIdle
    /\ obj = None
    /\ call = IdleCall
    /\ completed = FALSE
    /\ disk \in ServiceDisks
    /\ ServiceIdle
    /\ OthersIdle

NotService == <<wData, wSize, wStep, wRoutine, wOut, obj, call, completed, disk,
                mPhases, mDuration, mCall, sessions_db, analysis_db, http, race, run>>

Startup ==
    /\ ~started
    /\ \E import_ok \in BOOLEAN :
          LET r == startup(disk, import_ok)
          IN /\ LSTM_AVAILABLE' = r.LSTM_AVAILABLE
             /\ lstm_model' = r.lstm_model
    /\ started' = TRUE
    /\ UNCHANGED <<request, response>>
    /\ UNCHANGED NotService

\* POST /realtime/predict
RealtimePredict ==
    /\ started
    /\ response = None
    /\ \E a \in ServiceAccs, b \in ServiceAccs, n1 \in 0..MaxOlder,
          n2 \in (MIN_POINTS - MaxShort)..MIN_POINTS :
          LET sensor_data == TwoRuns(a, n1, b, n2)
          IN /\ request' = sensor_data
             /\ response' = predict_current_phase(LSTM_AVAILABLE, lstm_model,
                                                  sensor_data)
    /\ UNCHANGED <<started, LSTM_AVAILABLE, lstm_model>>
    /\ UNCHANGED NotService

\* the response has been sent
RealtimeDone ==
    /\ response # None
    /\ request' = << >>
    /\ response' = None
    /\ UNCHANGED <<started, LSTM_AVAILABLE, lstm_model>>
    /\ UNCHANGED NotService

Next ==
    \/ Startup
    \/ RealtimePredict
    \/ RealtimeDone

Spec == Init /\ [][Next]_vars

(***************************************************************************)
(* Specification SpecSessions: the session endpoints of the service.  One  *)
(* user starts one session (two starts of one user in the same microsecond *)
(* would share an id; the model leaves that out), clients send batches of  *)
(* BatchLen equal samples, and requests name the session's id or an id the *)
(* service never issued.                                                   *)
(***************************************************************************)
StartUsers == {"u1"}
StartTimes == {0}
\* the session is stopped 17 seconds or 8 hours after its start
StopTimes == {17, 28800}
\* a still and a moving device, magnitudes 0.05 and 0.5
SessionAccs == { <<0, 0, 5>>, <<30, 40, 0>> }
\* a batch is recorded from second 0 or from second BatchLen of the session
BatchStarts == {0, BatchLen}
\* the items of a request with their timestamps, one sample a second from t0
Stamped(data, t0) ==
    [k \in 1..Len(data) |->
        [timestamp |-> t0 + k - 1, accel_x |-> data[k].accel_x,
         accel_y |-> data[k].accel_y, accel_z |-> data[k].accel_z]]
Batches ==
    {Stamped(TwoRuns(a, BatchLen, a, 0), t0) :
        a \in SessionAccs, t0 \in BatchStarts}

InitSessions ==
    /\ WinIdle
    /\ obj = None
    /\ call = IdleCall
    /\ completed = FALSE
    /\ disk \in ServiceDisks
    /\ ServiceIdle
    /\ OthersIdle

NotSessions == <<wData, wSize, wStep, wRoutine, wOut, obj, call, completed, disk,
                 started, LSTM_AVAILABLE, lstm_model, request, response,
                 mPhases, mDuration, mCall, race, run>>

\* the service ran handler op for session_id and r is what the handler yields
Handled(op, session_id, r) ==
    /\ sessions_db' = r.sessions_db
    /\ analysis_db' = r.analysis_db
    /\ http' = [op |-> op, session_id |-> session_id, response |-> r.response]
    /\ UNCHANGED NotSessions

StartSession ==
    \E user_id \in StartUsers, now \in StartTimes :
        /\ started
        /\ sessions_db[session_id_of(user_id, now)] = None
        /\ Handled("start_session", session_id_of(user_id, now),
                   start_session(sessions_db, analysis_db, user_id, now))

AddSensorData ==
    \E session_id \in SessionIds, data \in Batches :
        /\ started
        /\ sessions_db[session_id] # None
             => Len(sessions_db[session_id].sensor_data) + Len(data)
                    <= MaxBatches * BatchLen
        /\ Handled("add_sensor_data", session_id,
                   add_sensor_data(sessions_db, analysis_db, session_id, data))

StopSession ==
    \E session_id \in SessionIds, now \in StopTimes :
        /\ started
        /\ Handled("stop_session", session_id,
                   stop_session(sessions_db, analysis_db, session_id, now))

AnalyzeSession ==
    \E session_id \in SessionIds :
        /\ started
        /\ Handled("analyze_session", session_id,
                   analyze_session(LSTM_AVAILABLE, lstm_model, sessions_db,
                                   analysis_db, session_id))

GetAnalysis ==
    \E session_id \in SessionIds :
        /\ started
        /\ Handled("get_analysis", session_id,
                   get_analysis(sessions_db, analysis_db, session_id))

NextSessions ==
    \/ Startup
    \/ StartSession
    \/ AddSensorData
    \/ StopSession
    \/ AnalyzeSession
    \/ GetAnalysis

SpecSessions == InitSessions /\ [][NextSessions]_vars

(***************************************************************************)
(* Specification SpecMetrics: the metrics functions as pure functions.     *)
(* Init draws a phase list and a duration; each action calls one function. *)
(* The phase lists are every list of up to MaxAnyOrder windows in every    *)
(* order and, up to MaxWindows windows, the lists made of one run of each  *)
(* phase; an entry carries the one key the functions read.                 *)
(***************************************************************************)
PhaseEntry(phase) == [phase |-> phase]

\* a awake windows, then l light, d deep and r rem ones
Runs(a, l, d, r) ==
    [k \in 1..(a + l + d + r) |->
        PhaseEntry(IF k <= a THEN AWAKE
                   ELSE IF k <= a + l THEN LIGHT
                   ELSE IF k <= a + l + d THEN DEEP
                   ELSE REM)]

PhaseLists ==
    SeqsUpTo({PhaseEntry(p) : p \in {AWAKE, LIGHT, DEEP, REM}}, MaxAnyOrder)
    \cup {Runs(c[1], c[2], c[3], c[4]) :
             c \in {c \in (0..MaxWindows) \X (0..MaxWindows) \X (0..MaxWindows)
                            \X (0..MaxWindows) :
                        c[1] + c[2] + c[3] + c[4] <= MaxWindows}}

\* hundredths of hours: an end before the start, 0, 36 seconds, 3.5, 7, 8, 9,
\* 10 and 23 hours
Durations == {-100, 0, 1, 350, 700, 800, 900, 1000, 2300}

\* hundredths of points around the thresholds of the overall message
RecScores == {0, 4999, 5000, 6999, 7000, 8499, 8500, 10000}

InitMetrics ==
    /\ mPhases \in PhaseLists
    /\ mDuration \in Durations
    /\ mCall = IdleCall
    /\ WinIdle
    /\ ObjIdle
    /\ ServiceIdle
    /\ SessionsIdle
    /\ RaceIdle
    /\ TrainIdle

NotMetrics == <<wData, wSize, wStep, wRoutine, wOut, obj, call, completed, disk,
                started, LSTM_AVAILABLE, lstm_model, request, response,
                sessions_db, analysis_db, http, race, run>>

CallSleepScore ==
    /\ mCall = IdleCall
    /\ mCall' = [method |-> "calculate_sleep_score",
                 out |-> calculate_sleep_score(mPhases, mDuration)]
    /\ UNCHANGED <<mPhases, mDuration>>
    /\ UNCHANGED NotMetrics

CallSleepEfficiency ==
    /\ mCall = IdleCall
    /\ mCall' = [method |-> "calculate_sleep_efficiency",
                 out |-> calculate_sleep_efficiency(mPhases, mDuration)]
    /\ UNCHANGED <<mPhases, mDuration>>
    /\ UNCHANGED NotMetrics

\* with the score of the phase list, as analyze_session calls it, or with a
\* score of the caller's choosing
CallRecommendations ==
    /\ mCall = IdleCall
    /\ \E score \in RecScores \cup {calculate_sleep_score(mPhases, mDuration)} :
          mCall' = [method |-> "generate_recommendations",
                    score |-> score,
                    out |-> generate_recommendations(score, mPhases)]
    /\ UNCHANGED <<mPhases, mDuration>>
    /\ UNCHANGED NotMetrics

NextMetrics ==
    \/ CallSleepScore
    \/ CallSleepEfficiency
    \/ CallRecommendations

SpecMetrics == InitMetrics /\ [][NextMetrics]_vars

(***************************************************************************)
(* Specification SpecRace: two threads on one trained SleepLSTMModel.  The *)
(* reader runs predict, the writer runs load_model or train; neither takes *)
(* a lock, so a step is one read or one write of an attribute of self.     *)
(* race holds the positions of the two threads, the object as it was       *)
(* before the writer started, and what the reader has read so far.         *)
(***************************************************************************)
\* the scaler in the file the writer loads
ReloadScaler ==
    scaler_fit(prepare_features(<<(<<30, 40, 0>>), (<<24, 32, 0>>)>>))

\* the array the reader predicts on: one window
RaceInput(sequence_length) == [k \in 1..(sequence_length + 1) |-> <<0, 0, 5>>]

\* the set the writer trains on
RaceTrainSet == <<SampleAwake, SampleAwake, SampleDeep, SampleLight>>

InitRace ==
    /\ \E sequence_length \in 1..MaxSeqLen, w \in Weights :
          obj = [sequence_length |-> sequence_length, model |-> [w |-> w],
                 scaler |-> ArtifactScaler, is_trained |-> TRUE]
    /\ \E w \in Weights :
          disk = [h5 |-> [w |-> w], pkl |-> ReloadScaler, json |-> None]
    /\ \E method \in {"load_model", "train"} :
          race = [old |-> obj, writer |-> method, wpc |-> "start",
                  rpc |-> "start", scaler_read |-> None, model_read |-> None,
                  outcome |-> None]
    /\ call = IdleCall
    /\ completed = TRUE
    /\ WinIdle
    /\ ServiceIdle
    /\ MetricsIdle
    /\ SessionsIdle
    /\ TrainIdle

NotRace == <<wData, wSize, wStep, wRoutine, wOut, call, completed, disk,
             started, LSTM_AVAILABLE, lstm_model, request, response,
             mPhases, mDuration, mCall, sessions_db, analysis_db, http, run>>

\* predict: if not self.is_trained
PredictCheck ==
    /\ race.rpc = "start"
    /\ race' = IF obj.is_trained
               THEN [race EXCEPT !.rpc = "checked"]
               ELSE [race EXCEPT !.rpc = "done",
                                 !.outcome = Raise("ValueError", NOT_TRAINED)]
    /\ UNCHANGED obj
    /\ UNCHANGED NotRace

\* predict: features_scaled = self.scaler.transform(...)
PredictScale ==
    /\ race.rpc = "checked"
    /\ race' = [race EXCEPT !.rpc = "scaled", !.scaler_read = obj.scaler]
    /\ UNCHANGED obj
    /\ UNCHANGED NotRace

\* predict: predictions = self.model.predict(sequences) and the results,
\* which are those of predict on what the reader has read
PredictNet ==
    /\ race.rpc = "scaled"
    /\ race' = [race EXCEPT
                   !.rpc = "done",
                   !.model_read = obj.model,
                   !.outcome = predict([obj EXCEPT !.scaler = race.scaler_read],
                                       RaceInput(obj.sequence_length))]
    /\ UNCHANGED obj
    /\ UNCHANGED NotRace

\* load_model: self.model = keras.models.load_model(...)
LoadModelFile ==
    /\ race.writer = "load_model"
    /\ race.wpc = "start"
    /\ obj' = [obj EXCEPT !.model = disk.h5]
    /\ race' = [race EXCEPT !.wpc = "first"]
    /\ UNCHANGED NotRace

\* load_model: self.scaler = joblib.load(...)
LoadScalerFile ==
    /\ race.writer = "load_model"
    /\ race.wpc = "first"
    /\ obj' = [obj EXCEPT !.scaler = disk.pkl]
    /\ race' = [race EXCEPT !.wpc = "second"]
    /\ UNCHANGED NotRace

\* train: X_train_scaled = self.scaler.fit_transform(...), on the scaler the
\* object already has
TrainFitScaler ==
    /\ race.writer = "train"
    /\ race.wpc = "start"
    /\ obj' = [obj EXCEPT
                  !.scaler = scaler_fit(prepare_features(Accs(RaceTrainSet)))]
    /\ race' = [race EXCEPT !.wpc = "first"]
    /\ UNCHANGED NotRace

\* train: self.model.fit(...), on the network the object already has
TrainFitModel ==
    /\ race.writer = "train"
    /\ race.wpc = "first"
    /\ \E w1 \in Weights : obj' = [obj EXCEPT !.model = [w |-> w1]]
    /\ race' = [race EXCEPT !.wpc = "second"]
    /\ UNCHANGED NotRace

\* load_model and train: self.is_trained = True
WriterSetTrained ==
    /\ race.wpc = "second"
    /\ obj' = [obj EXCEPT !.is_trained = TRUE]
    /\ race' = [race EXCEPT !.wpc = "done"]
    /\ UNCHANGED NotRace

NextRace ==
    \/ PredictCheck
    \/ PredictScale
    \/ PredictNet
    \/ LoadModelFile
    \/ LoadScalerFile
    \/ TrainFitScaler
    \/ TrainFitModel
    \/ WriterSetTrained

SpecRace == InitRace /\ [][NextRace]_vars

(***************************************************************************)
(* Claims about the real-time estimate (checked under Spec).               *)
(***************************************************************************)
Answered == response # None
Answered200 == Answered /\ response.status = 200
OnModelPath == LSTM_AVAILABLE /\ lstm_model.is_trained
OnFallbackPath == ~OnModelPath

\* the sum of the magnitudes of the last 60 samples of the request, so that
\* the mean m of the window is RecentTotal / 60
RecentTotal ==
    LET recent == LastN(request, 60)
    IN SumSeq([k \in 1..Len(recent) |-> Magnitude(Row(recent[k]))])

\* C6: the real-time estimate fails with the insufficient-data error (400) if
\* and only if fewer than 60 samples are supplied, on either path.
T_C6_InsufficientIffBelow60 ==
    Answered => ((response.status = 400) <=> (Len(request) < 60))

\* 59 samples were turned away by a service whose classifier is loaded
W_C6_FiftyNineRejected ==
    /\ Answered
    /\ OnModelPath
    /\ Len(request) = 59
    /\ response.status = 400

\* C7: the real-time estimate depends only on the last 60 samples: the answer
\* to a request equals the answer to its last 60 samples alone, so any two
\* requests with the same last 60 samples get the same phase, confidence and
\* probabilities, on either path.
T_C7_OnlyLast60 ==
    (Answered /\ Len(request) >= 60)
    => response = predict_current_phase(LSTM_AVAILABLE, lstm_model,
                                        LastN(request, 60))

\* the classifier answered a request whose older samples differ from its
\* last 60
W_C7_OlderSamplesDropped ==
    /\ Answered200
    /\ OnModelPath
    /\ Len(request) > 60
    /\ request[1] # request[Len(request)]

\* C8: without a trained classifier the phase follows the mean m of the
\* window's magnitudes: awake if m > 0.4, else deep if m < 0.08, else light
\* if m > 0.15, else rem.
T_C8_FallbackThresholds ==
    (Answered200 /\ OnFallbackPath)
    => LET t == RecentTotal
           p == response.current_phase
       IN /\ (t > 40 * 60 => p = AWAKE)
          /\ (t <= 40 * 60 /\ t < 8 * 60 => p = DEEP)
          /\ (t <= 40 * 60 /\ t >= 8 * 60 /\ t > 15 * 60 => p = LIGHT)
          /\ (t >= 8 * 60 /\ t <= 15 * 60 => p = REM)

\* a window whose mean is exactly 0.15 was classified rem by the fallback
W_C8_MeanAtLightThreshold ==
    /\ Answered200
    /\ OnFallbackPath
    /\ RecentTotal = 15 * 60
    /\ response.current_phase = REM

\* C9: given exactly 60 samples whose magnitude mean is 9.0, the fallback path
\* returns phase deep.
CE_C9_StillDeviceDeep ==
    (Answered200 /\ OnFallbackPath /\ Len(request) = 60
        /\ RecentTotal = 900 * 60)
    => response.current_phase = DEEP

\* C10: in every Prediction the real-time estimate returns, the phase is the
\* argmax of the probabilities (ties toward the lowest class index) and the
\* confidence is the probability of that phase.
CE_C10_PredictionConsistent ==
    Answered200
    => LET p == <<response.probabilities.awake, response.probabilities.light,
                  response.probabilities.deep, response.probabilities.rem>>
           best == CHOOSE c \in 1..4 :
                       /\ \A d \in 1..4 : p[d] <= p[c]
                       /\ \A d \in 1..(c - 1) : p[d] < p[c]
       IN /\ response.current_phase = phase_map[best]
          /\ response.confidence = p[best]

\* C11: the real-time estimate never fails because the trained classifier is
\* unavailable: whether the import failed, the model file is absent or the
\* load raised at startup, a request with at least 60 samples is answered 200
\* with the phase of the rule-based fallback.
ClassifierUnavailable ==
    started /\ (~LSTM_AVAILABLE \/ disk.h5 = None \/ disk.pkl = None)

T_C11_FallbackWhenUnavailable ==
    (Answered /\ ClassifierUnavailable /\ Len(request) >= 60)
    => /\ response.status = 200
       /\ response.current_phase = fallback_phase(fallback_movements(request))
       /\ response.confidence = 70

\* the load raised at startup (model file there, scaler file missing) and a
\* request of 60 samples was answered by the fallback
W_C11_LoadRaisedAnswered ==
    /\ Answered200
    /\ started
    /\ disk.h5 # None
    /\ disk.pkl = None
    /\ ~LSTM_AVAILABLE
    /\ Len(request) = 60
    /\ response.confidence = 70

(***************************************************************************)
(* Claims about the session endpoints (checked under SpecSessions).        *)
(***************************************************************************)
Analyzed == http # None /\ http.op = "analyze_session"
Analyzed200 == Analyzed /\ http.response.status = 200

\* C12: in full-session analysis the absence of a trained classifier is never
\* handled by substituting the rule-based classification: without a trained
\* classifier the request ends in an explicit failure the caller sees, never
\* in a result.
CE_C12_NoSilentFallback ==
    (Analyzed /\ OnFallbackPath) => http.response.status # 200

\* C13: for every existing session holding at least one sample, POST /analyze
\* returns, and stores for GET /analysis, a result with sleep_score,
\* total_sleep_time, sleep_efficiency, phases and recommendations, whether
\* the classifier is loaded or the fallback is used, and every entry of
\* phases carries timestamp, phase (one of the four), movement and
\* movement_std.
CE_C13_AnalysisShape ==
    (/\ Analyzed
     /\ sessions_db[http.session_id] # None
     /\ Len(sessions_db[http.session_id].sensor_data) >= 1)
    => /\ http.response.status = 200
       /\ analysis_db[http.session_id] = http.response.body
       /\ {"sleep_score", "total_sleep_time", "sleep_efficiency", "phases",
           "recommendations"} \subseteq DOMAIN http.response.body
       /\ \A k \in 1..Len(http.response.body.phases) :
              LET entry == http.response.body.phases[k]
              IN /\ {"timestamp", "phase", "movement", "movement_std"}
                        \subseteq DOMAIN entry
                 /\ entry.phase \in {AWAKE, LIGHT, DEEP, REM}

(***************************************************************************)
(* Claims about the sleep metrics (checked under SpecMetrics).  The stated *)
(* formula is written out over the denominator StatedDen = 2100 * total.   *)
(***************************************************************************)
ScoreCalled == mCall.method = "calculate_sleep_score"
EfficiencyCalled == mCall.method = "calculate_sleep_efficiency"
RecommendationsCalled == mCall.method = "generate_recommendations"

Total == Len(mPhases)
Deep == PhaseCount(mPhases, DEEP)
Rem == PhaseCount(mPhases, REM)
Light == PhaseCount(mPhases, LIGHT)
Awake == PhaseCount(mPhases, AWAKE)

StatedDen == 2100 * Total

\* full 25 in [lo, 0.25] (lo in hundredths), count/total / lo * 25 below it,
\* 25 less 50 per unit above 0.25, floored at 0
StatedBand(count, lo) ==
    IF 100 * count < lo * Total THEN (5250000 * count) \div lo
    ELSE IF 100 * count <= 25 * Total THEN 25 * StatedDen
    ELSE Max2(0, 78750 * Total - 105000 * count)

StatedLight ==
    IF 45 * Total <= 100 * Light /\ 100 * Light <= 55 * Total
    THEN 20 * StatedDen
    ELSE Max2(0, 20 * StatedDen
                 - 42000 * (IF 2 * Light >= Total THEN 2 * Light - Total
                            ELSE Total - 2 * Light))

StatedDuration ==
    IF mDuration < 700 THEN 60 * mDuration * Total
    ELSE IF mDuration <= 900 THEN 20 * StatedDen
    ELSE Max2(0, 20 * StatedDen - 105 * (mDuration - 900) * Total)

StatedPenalty == Min2(210000 * Awake, 10 * StatedDen)

StatedRaw ==
    StatedBand(Deep, 15) + StatedBand(Rem, 20) + StatedLight + StatedDuration
    - StatedPenalty

StatedClamped == Max2(0, Min2(100 * StatedDen, StatedRaw))

\* out, in hundredths, is StatedClamped / StatedDen rounded to 2 decimals
IsStatedScore(out) ==
    /\ 2 * (out * StatedDen - 100 * StatedClamped) <= StatedDen
    /\ 2 * (100 * StatedClamped - out * StatedDen) <= StatedDen

\* C14 (as stated): for every phase list with at least one window and every
\* duration >= 0, calculate_sleep_score returns clamp(deep_score + rem_score
\* + light_score + duration_score - awake_penalty, 0, 100), to 2 decimals.
CE_C14_ScoreFormula ==
    (ScoreCalled /\ Total >= 1 /\ mDuration >= 0) => IsStatedScore(mCall.out)

\* C14 (amended): for every phase list with at least one window,
\* calculate_sleep_score returns that clamped sum, rounded to 2 decimals,
\* for every duration > 0, and 0 for a duration of 0.
T_C14_ScoreFormulaPositiveDuration ==
    (ScoreCalled /\ Total >= 1)
    => /\ mDuration > 0 => IsStatedScore(mCall.out)
       /\ mDuration = 0 => mCall.out = 0

\* a list with REM below its band and 3.5 hours of sleep got a positive score
W_C14_RampsScored ==
    /\ ScoreCalled
    /\ mDuration = 350
    /\ Rem >= 1
    /\ 100 * Rem < 20 * Total
    /\ 100 * Rem >= 15 * Total
    /\ mCall.out > 0

\* C15: for every phase list and every duration the score calculate_sleep_score
\* returns lies in [0, 100]; a raw sum of sub-scores less the penalty that is
\* below 0 is returned as 0, one above 100 as 100.
T_C15_ScoreInRange ==
    ScoreCalled
    => /\ 0 <= mCall.out
       /\ mCall.out <= 10000
       /\ (Total >= 1 /\ mDuration # 0)
              => /\ raw_score(mPhases, mDuration) < 0 => mCall.out = 0
                 /\ raw_score(mPhases, mDuration) > 100 * ScoreDen(Total)
                        => mCall.out = 10000

\* a night of awake windows only and 36 seconds long: the raw sum is
\* negative and the score is 0
W_C15_NegativeRawClamped ==
    /\ ScoreCalled
    /\ Total >= 1
    /\ mDuration = 1
    /\ raw_score(mPhases, mDuration) < 0
    /\ mCall.out = 0

\* C16: for every non-empty phase list the sleep efficiency is (windows not
\* labelled awake) / (total windows) * 100, to 2 decimals, whatever the
\* duration argument; 10 windows with 2 awake give 80.00.
T_C16_Efficiency ==
    (EfficiencyCalled /\ Total >= 1)
    => /\ 2 * (mCall.out * Total - 10000 * (Total - Awake)) <= Total
       /\ 2 * (10000 * (Total - Awake) - mCall.out * Total) <= Total
       /\ \A d \in Durations :
              calculate_sleep_efficiency(mPhases, d) = mCall.out
       /\ (Total = 10 /\ Awake = 2) => mCall.out = 8000

\* 10 windows with 2 awake, and a duration of 0, gave 80.00
W_C16_EightyPercent ==
    /\ EfficiencyCalled
    /\ Total = 10
    /\ Awake = 2
    /\ mDuration = 0
    /\ mCall.out = 8000

\* C17: on an empty list of windows the score is 0, the efficiency is 0 and
\* the recommendations are exactly the one 'not enough data' message.
T_C17_EmptyList ==
    Total = 0
    => /\ ScoreCalled => mCall.out = 0
       /\ EfficiencyCalled => mCall.out = 0
       /\ RecommendationsCalled => mCall.out = <<NOT_ENOUGH_DATA>>

\* generate_recommendations was called on the empty list with a high score
W_C17_EmptyRecommendations ==
    /\ RecommendationsCalled
    /\ Total = 0
    /\ mCall.score = 10000
    /\ mCall.out = <<NOT_ENOUGH_DATA>>

\* the place of a message in the order of the rules
RuleRank(message) ==
    IF message \in OverallMessages THEN 0
    ELSE IF message \in DeepMessages THEN 1
    ELSE IF message \in RemMessages THEN 2
    ELSE IF message \in AwakeMessages THEN 3
    ELSE IF message \in LightMessages THEN 4
    ELSE IF message = GENERAL_TIPS THEN 5
    ELSE 6

Said(message) == \E k \in 1..Len(mCall.out) : mCall.out[k] = message

\* C18: for every non-empty phase list and score, generate_recommendations
\* returns the overall-score message first, then at most one deep, one REM,
\* one awake and one light message in that order, and the general-tips
\* message last if and only if score < 70; each rule's message follows from
\* its own percentage (or the score) alone.
T_C18_RecommendationOrder ==
    (RecommendationsCalled /\ Total >= 1)
    => LET out == mCall.out
           score == mCall.score
       IN /\ Len(out) >= 1
          /\ RuleRank(out[1]) = 0
          /\ \A k \in 1..Len(out) : RuleRank(out[k]) <= 5
          /\ \A j \in 1..Len(out), k \in 1..Len(out) :
                 j < k => RuleRank(out[j]) < RuleRank(out[k])
          /\ (out[Len(out)] = GENERAL_TIPS) <=> (score < 7000)
          /\ Said("Excellent sleep") <=> score >= 8500
          /\ Said("Good sleep quality") <=> (score >= 7000 /\ score < 8500)
          /\ Said("Fair sleep") <=> (score >= 5000 /\ score < 7000)
          /\ Said("Poor sleep quality") <=> score < 5000
          /\ Said("Low deep sleep") <=> 100 * Deep < 13 * Total
          /\ Said("Unusually high deep sleep") <=> 100 * Deep > 30 * Total
          /\ Said("Low REM sleep") <=> 100 * Rem < 15 * Total
          /\ Said("High REM sleep") <=> 100 * Rem > 30 * Total
          /\ Said("Frequent awakenings") <=> 100 * Awake > 10 * Total
          /\ Said("Some awakenings")
                 <=> (100 * Awake > 5 * Total /\ 100 * Awake <= 10 * Total)
          /\ Said("Low light sleep") <=> 100 * Light < 35 * Total
          /\ Said("High light sleep") <=> 100 * Light > 65 * Total

\* at a score of exactly 70 only the overall message and a deep message came
\* back, and no general tips
W_C18_SeventyNoTips ==
    /\ RecommendationsCalled
    /\ Total >= 1
    /\ mCall.score = 7000
    /\ mCall.out = <<"Good sleep quality", "Unusually high deep sleep">>

(***************************************************************************)
(* Claims about a failed training run (checked under SpecLSTM).            *)
(***************************************************************************)
\* C20: if a training run on an already trained (or loaded) SleepLSTMModel
\* fails part-way, the previously trained artifact is untouched: scaler
\* parameters, model parameters and trained flag are what they were before
\* the run started.
CE_C20_FailedTrainKeepsArtifact ==
    [][(/\ obj.is_trained
        /\ call'.method = "train"
        /\ call'.outcome.kind = "raise")
       => /\ obj'.scaler = obj.scaler
          /\ obj'.model = obj.model
          /\ obj'.is_trained = obj.is_trained]_vars

(***************************************************************************)
(* Claims about concurrent use of one SleepLSTMModel (checked under        *)
(* SpecRace).                                                              *)
(***************************************************************************)
\* C19: a predict call running concurrently with a reload (load_model) or a
\* retrain (train) of the same SleepLSTMModel computes with either the
\* complete old artifact or the complete new one: never with the scaler of
\* one and the model of the other.
CE_C19_NoMixedArtifact ==
    (race.rpc = "done" /\ race.wpc = "done" /\ race.outcome.kind = "ok")
    => \/ /\ race.scaler_read = race.old.scaler
          /\ race.model_read = race.old.model
       \/ /\ race.scaler_read = obj.scaler
          /\ race.model_read = obj.model

(***************************************************************************)
(* Claims about persisting a SleepLSTMModel (checked under SpecLSTM).      *)
(***************************************************************************)
\* C21: save_model followed by load_model into a fresh SleepLSTMModel is an
\* exact round trip: for a trained instance that has just been saved, the
\* instance restored from the files predicts, on every input, what the
\* original predicts, whatever sequence_length the fresh instance was
\* constructed with (the files would have to carry it).
CE_C21_SaveLoadRoundTrip ==
    (/\ call.method = "save_model"
     /\ call.outcome = Returned
     /\ obj.is_trained)
    => \A sequence_length \in 1..MaxSeqLen :
         \A data \in SeqsUpTo(ObjSamples, MaxObjLen) :
            LET restored == load_model(new_model(sequence_length), disk).self
            IN predict(restored, Accs(data)) = predict(obj, Accs(data))

(***************************************************************************)
(* Claims about loading the persisted artifact at service startup          *)
(* (checked under Spec).                                                   *)
(***************************************************************************)
\* C22: the service is up on a persisted artifact (a model file in the model
\* directory) only if the artifact is complete and consistent: the scaler
\* file and the metadata sidecar are present as well and the sidecar's
\* window_size is the sequence_length the service constructs its classifier
\* with.  With a component missing the load fails and the service neither
\* serves from the artifact nor comes up degraded.
CE_C22_StartupNeedsCompleteArtifact ==
    (started /\ disk.h5 # None)
    => /\ disk.pkl # None
       /\ disk.json # None
       /\ disk.json.window_size = SERVICE_SEQUENCE_LENGTH

(***************************************************************************)
(* Claims about batch prediction (checked under SpecLSTM).                 *)
(***************************************************************************)
\* C23: on a trained classifier, predict on exactly sequence_length samples
\* returns one result, the prediction for that single window, and it is what
\* predict_realtime returns for the same samples.
CE_C23_SingleWindowBatch ==
    (/\ call.method = "predict"
     /\ obj.is_trained
     /\ Len(call.data) = obj.sequence_length)
    => /\ call.outcome.kind = "ok"
       /\ Len(call.outcome.results) = 1
       /\ call.outcome.results[1].prediction
              = predict_realtime(obj, call.data).prediction

(***************************************************************************)
(* Specification SpecTrain: one training run, in run.  run.script is the   *)
(* code that runs: the script train_final.py (train_with_real_data.py has  *)
(* the same order of steps), or SleepLSTMModel.train as train_fast.py      *)
(* calls it, with or without validation data.  run.X is the data as a      *)
(* sequence of windows, each a sequence of feature rows; a part of a split *)
(* is the set of the indices of its windows.  The numerics of model.fit    *)
(* are outside this development: every epoch draws the monitored loss, and *)
(* the weights an epoch leaves are [epoch, monitored].                     *)
(***************************************************************************)
MaxTrainWindows == 4

PATIENCE_TRAIN == 10    \* SleepLSTMModel.train: patience=10
EPOCHS_FAST == 15       \* train_fast.py: epochs=15
PATIENCE_FINAL == 7     \* train_final.py: patience=7
EPOCHS_FINAL == 40      \* train_final.py: epochs=40

\* the values a monitored loss takes
Losses == {1, 2}

\* a window of a still device and one of a moving device, two rows each
WindowStill == << <<0, 0, 5, 5>>, <<0, 0, 5, 5>> >>
WindowMoving == << <<30, 40, 0, 50>>, <<30, 40, 0, 50>> >>

\* data sets: n windows, the first m still and the others moving
TrainData ==
    { [k \in 1..c[1] |-> IF k <= c[2] THEN WindowStill ELSE WindowMoving] :
        c \in {c \in (3..MaxTrainWindows) \X {1, 2} : c[2] < c[1]} }

\* X.reshape(-1, 4) restricted to the windows of part: their rows, in order
RECURSIVE flat_rows(_, _, _)
flat_rows(X, part, k) ==
    IF k > Len(X) THEN << >>
    ELSE (IF k \in part THEN X[k] ELSE << >>) \o flat_rows(X, part, k + 1)

\* sklearn train_test_split(test_size = pct / 100) of a one-class data set:
\* the parts a shuffle can produce, n_test = ceil(test_size * n)
train_test_split(part, pct) ==
    LET n_test == (Cardinality(part) * pct + 99) \div 100
    IN { [train |-> part \ t, test |-> t] :
           t \in {t \in SUBSET part : Cardinality(t) = n_test} }

patience_of(script) ==
    IF script = "train_final" THEN PATIENCE_FINAL ELSE PATIENCE_TRAIN

epochs_of(script) ==
    IF script = "train_final" THEN EPOCHS_FINAL ELSE EPOCHS_FAST

\* monitor='val_loss' if validation_data else 'loss'
monitor_of(script, validation) ==
    IF script = "train_final" \/ validation THEN "val_loss" ELSE "loss"

\* keras EarlyStopping.on_epoch_end(epoch, logs) after an epoch that left
\* weights and logs[monitor] = current.  restore_at_end distinguishes the
\* two families of Keras builds: those that restore the best weights when the
\* callback stops the run, and those that restore them in on_train_end
on_epoch_end(r, weights, current) ==
    LET improved == r.best = None \/ current < r.best.some
        wait == IF improved THEN 0 ELSE r.wait + 1
        stop == ~improved /\ wait >= patience_of(r.script) /\ r.epoch > 0
        best_weights == IF improved THEN weights ELSE r.best_weights
    IN [r EXCEPT !.epoch = r.epoch + 1,
                 !.wait = wait,
                 !.best = IF improved THEN Some(current) ELSE r.best,
                 !.best_weights = best_weights,
                 !.stop_training = stop,
                 !.weights = IF stop /\ ~r.restore_at_end
                             THEN best_weights ELSE weights]

\* keras EarlyStopping.on_train_end
on_train_end(r) ==
    IF r.restore_at_end /\ r.best_weights # None
    THEN [r EXCEPT !.weights = r.best_weights]
    ELSE r

InitTrain ==
    /\ \E X \in TrainData, script \in {"train_final", "train"},
          validation \in BOOLEAN, restore_at_end \in BOOLEAN :
          /\ script = "train_final" => validation
          /\ run = [script |-> script, X |-> X, pc |-> "start",
                    scaler |-> [fitted |-> FALSE],
                    split |-> IF script = "train_final" THEN None
                              ELSE IF validation
                              THEN [train |-> 1..(Len(X) - 1),
                                    val |-> {Len(X)}, test |-> {}]
                              ELSE [train |-> 1..Len(X), val |-> {},
                                    test |-> {}],
                    monitor |-> monitor_of(script, validation),
                    restore_at_end |-> restore_at_end,
                    epoch |-> 0, wait |-> 0, best |-> None,
                    best_weights |-> None, weights |-> None,
                    stop_training |-> FALSE, seen_min |-> None]
    /\ WinIdle
    /\ ObjIdle
    /\ ServiceIdle
    /\ MetricsIdle
    /\ SessionsIdle
    /\ RaceIdle

NotTrain == <<wData, wSize, wStep, wRoutine, wOut, obj, call, completed, disk,
              started, LSTM_AVAILABLE, lstm_model, request, response,
              mPhases, mDuration, mCall, sessions_db, analysis_db, http, race>>

\* train_final.py, step 3: scaler.fit_transform(X.reshape(-1, 4))
ScriptNormalize ==
    /\ run.script = "train_final"
    /\ run.pc = "start"
    /\ run' = [run EXCEPT
                 !.scaler = scaler_fit(flat_rows(run.X, 1..Len(run.X), 1)),
                 !.pc = "normalized"]
    /\ UNCHANGED NotTrain

\* train_final.py, step 4: the two train_test_split calls; the second raises
\* when it would leave the validation part empty
ScriptSplit ==
    /\ run.script = "train_final"
    /\ run.pc = "normalized"
    /\ \E first \in train_test_split(1..Len(run.X), 30) :
          \E second \in train_test_split(first.test, 50) :
             run' = IF second.train = {}
                    THEN [run EXCEPT !.pc = "raised"]
                    ELSE [run EXCEPT !.split = [train |-> first.train,
                                                val |-> second.train,
                                                test |-> second.test],
                                     !.pc = "fit"]
    /\ UNCHANGED NotTrain

\* SleepLSTMModel.train: self.scaler.fit_transform on X_train (X_val, when
\* given, goes through self.scaler.transform)
MethodFitScaler ==
    /\ run.script = "train"
    /\ run.pc = "start"
    /\ run' = [run EXCEPT
                 !.scaler = scaler_fit(flat_rows(run.X, run.split.train, 1)),
                 !.pc = "fit"]
    /\ UNCHANGED NotTrain

\* model.fit: one epoch and the callback after it
FitEpoch ==
    /\ run.pc = "fit"
    /\ run.epoch < epochs_of(run.script)
    /\ ~run.stop_training
    /\ \E current \in Losses :
          LET weights == [epoch |-> run.epoch, monitored |-> current]
              seen == IF run.seen_min = None \/ current < run.seen_min.some
                      THEN Some(current) ELSE run.seen_min
          IN run' = [on_epoch_end(run, weights, current)
                         EXCEPT !.seen_min = seen]
    /\ UNCHANGED NotTrain

\* model.fit returns: the epoch limit is reached or the callback stopped it
FitEnd ==
    /\ run.pc = "fit"
    /\ run.epoch = epochs_of(run.script) \/ run.stop_training
    /\ run' = [on_train_end(run) EXCEPT !.pc = "trained"]
    /\ UNCHANGED NotTrain

NextTrain ==
    \/ ScriptNormalize
    \/ ScriptSplit
    \/ MethodFitScaler
    \/ FitEpoch
    \/ FitEnd

SpecTrain == InitTrain /\ [][NextTrain]_vars

(***************************************************************************)
(* Claims about training runs (checked under SpecTrain).                   *)
(***************************************************************************)
\* C24: in every training run the scaler is fitted on the training split
\* only: once the run has its split and its fitted scaler, the scaler's mean
\* and scale are those of the rows of the training windows, so no window of
\* the validation or test part contributed to them.
CE_C24_ScalerFitOnTrainOnly ==
    (run.scaler.fitted /\ run.split # None)
    => run.scaler = scaler_fit(flat_rows(run.X, run.split.train, 1))

\* C25: training monitors the held-out validation loss, and whenever it ends,
\* by early stop or at the epoch limit, the weights the model keeps are those
\* of an epoch with the best monitored loss observed during the run.
CE_C25_BestValidationWeightsKept ==
    run.pc = "trained"
    => /\ run.monitor = "val_loss"
       /\ run.weights.monitored = run.seen_min.some

(***************************************************************************)
(* Claims about the session stores (checked under SpecSessions).           *)
(***************************************************************************)
Chronological(sensor_data) ==
    \A k \in 1..(Len(sensor_data) - 1) :
        sensor_data[k].timestamp <= sensor_data[k + 1].timestamp

\* what one step may do to the buffer of session s: an answered
\* add_sensor_data appends its batch, whole and in order, and nothing else
\* touches the buffer
AppendOnlyStep(s) ==
    LET old == sessions_db[s].sensor_data
        new == sessions_db'[s].sensor_data
    IN /\ sessions_db'[s] # None
       /\ IF /\ http'.op = "add_sensor_data"
             /\ http'.session_id = s
             /\ http'.response.status = 200
          THEN \E data \in Batches : new = old \o data
          ELSE new = old

\* C26: session ingestion is append-only and order-preserving, and the
\* buffer stays chronologically ordered: every step leaves the buffer of an
\* existing session as it was or extended by the batch of the add_sensor_data
\* call it applied, and the buffer after the step is ordered by timestamp.
CE_C26_AppendOnlyChronological ==
    [][\A s \in SessionIds :
          sessions_db[s] # None
          => /\ AppendOnlyStep(s)
             /\ Chronological(sessions_db'[s].sensor_data)]_vars

\* the append-only, order-preserving part on its own
AppendOnlyHolds ==
    [][\A s \in SessionIds : sessions_db[s] # None => AppendOnlyStep(s)]_vars

\* C27: sensor data is added only to an active session: once stop_session
\* has marked a session completed, no step changes its buffer.
CE_C27_NoDataAfterStop ==
    [][\A s \in SessionIds :
          (sessions_db[s] # None /\ sessions_db[s].status = "completed")
          => /\ sessions_db'[s] # None
             /\ sessions_db'[s].sensor_data = sessions_db[s].sensor_data]_vars

\* C28: an analysis is produced and stored only for a stopped session: every
\* stored analysis belongs to a session with status completed and an
\* end_time, and its total_sleep_time is the duration from start_time to an
\* end_time the session was stopped at.
CE_C28_AnalysisOnlyWhenCompleted ==
    \A s \in SessionIds :
        analysis_db[s] # None
        => /\ sessions_db[s] # None
           /\ sessions_db[s].status = "completed"
           /\ sessions_db[s].end_time # None
           /\ \E now \in StopTimes :
                  analysis_db[s].total_sleep_time
                      = round2(now - sessions_db[s].start_time, 3600)

(***************************************************************************)
(* Claims about the classifier the handlers use (checked under Spec).      *)
(***************************************************************************)
\* C29: once the service has started, LSTM_AVAILABLE implies that lstm_model
\* is a classifier (not None) with is_trained true, whatever the startup met
\* (import failure, no model file, a load that raised, a load that
\* returned); so the guard "LSTM_AVAILABLE and lstm_model.is_trained" of the
\* handlers never reads an attribute of None, and predict and
\* predict_realtime are called on a trained classifier only.
T_C29_AvailableImpliesTrained ==
    started
    => (LSTM_AVAILABLE => (lstm_model # None /\ lstm_model.is_trained))

\* the load returned at startup and a request was answered by the classifier
W_C29_LoadedAndUsed ==
    /\ started
    /\ LSTM_AVAILABLE
    /\ lstm_model # None
    /\ lstm_model.is_trained
    /\ Answered200
    /\ OnModelPath

\* the handler that ran in this step answered with the error status and left
\* both stores as they were
Refused(status) ==
    /\ http'.response.status = status
    /\ sessions_db' = sessions_db
    /\ analysis_db' = analysis_db

\* C30: add_sensor_data, stop_session and analyze_session on a session id
\* that was never started answer 404, analyze_session on a session without
\* samples answers 400 and get_analysis on a session never analyzed answers
\* 404, and each of them leaves the session store and the analysis store
\* exactly as they were.
T_C30_ErrorsLeaveStores ==
    [][http' # None
       => LET s == http'.session_id
              op == http'.op
          IN /\ (/\ op \in {"add_sensor_data", "stop_session",
                            "analyze_session"}
                 /\ sessions_db[s] = None)
                => Refused(404)
             /\ (/\ op = "analyze_session"
                 /\ sessions_db[s] # None
                 /\ Len(sessions_db[s].sensor_data) = 0)
                => Refused(400)
             /\ (op = "get_analysis" /\ analysis_db[s] = None)
                => Refused(404)]_vars

\* analyze_session on a started session that holds no sample was answered 400
\* and nothing is stored for it
W_C30_EmptySessionRefused ==
    /\ http # None
    /\ http.op = "analyze_session"
    /\ sessions_db[http.session_id] # None
    /\ Len(sessions_db[http.session_id].sensor_data) = 0
    /\ analysis_db[http.session_id] = None
    /\ http.response.status = 400

====
